---------------------------- MODULE Spec2Model ----------------------------
(***************************************************************************)
(* The movie recommender notebook                                          *)
(* notebooks/demo/nx_cugraph_jaccard_movie_recommender.ipynb as a state    *)
(* machine.  The state is the notebook's global namespace, its standard    *)
(* output and the error (if any) that stopped it; one action per code      *)
(* cell, run in the order of the notebook.  The two input files are the    *)
(* inputs: ratings_csv is the list of rating rows, movies_csv the list of  *)
(* metadata lines, each line already cut at its commas.                    *)
(*                                                                         *)
(* Scores are Jaccard coefficients, quotients of two small naturals: a     *)
(* score is kept as the fraction in lowest terms, <<num, den>>, which      *)
(* stands for the float the division yields.                               *)
(***************************************************************************)
EXTENDS Integers, Sequences, FiniteSets, TLC

(***************************************************************************)
(* Bounds of the model.                                                    *)
(***************************************************************************)
MaxUser == 2      \* raw user ids are 1..MaxUser
MaxMovie == 3     \* movie ids are 1..MaxMovie
MaxRows == 3      \* rows of ratings.csv
MaxLines == 2     \* lines of movies.csv in the runs that vary the file
MaxN == 2         \* the argument n of print_similar_movies
MaxLen == 3       \* length of a similarity list given to the ranking alone
MaxCand == 3      \* candidate ids of such a list are 1..MaxCand
MaxDen == 1       \* scores of such a list are k/MaxDen, k in 0..MaxDen

(***************************************************************************)
(* Program constants.                                                      *)
(***************************************************************************)
GoodRating == 3   \* ratings_df["rating"] >= 3
Int32Max == 2147483647   \* dtype={"userId": "int32", ...}

None == 0 - 1     \* a name not bound yet

Users == 1..MaxUser
Movies == 1..MaxMovie
RatingValues == {GoodRating - 1, GoodRating, GoodRating + 1}

(***************************************************************************)
(* Sequences.                                                              *)
(***************************************************************************)
Range(s) == {s[i] : i \in DOMAIN s}

Reverse(s) == [i \in 1..Len(s) |-> s[Len(s) + 1 - i]]

Member(x, s) == \E i \in DOMAIN s : s[i] = x

\* pandas.Series.unique(): the values in order of first appearance
RECURSIVE Unique(_)
Unique(s) ==
  IF s = <<>> THEN <<>>
  ELSE LET front == Unique(SubSeq(s, 1, Len(s) - 1))
           x == s[Len(s)]
       IN  IF Member(x, front) THEN front ELSE Append(front, x)

\* s[1:] of Python
Tail1(s) == IF s = <<>> THEN <<>> ELSE Tail(s)

RECURSIVE SetToSeq(_)
SetToSeq(S) ==
  IF S = {} THEN <<>>
  ELSE LET m == CHOOSE x \in S : \A y \in S : x <= y
       IN  <<m>> \o SetToSeq(S \ {m})

RECURSIVE Gcd(_, _)
Gcd(a, b) == IF b = 0 THEN a ELSE Gcd(b, a % b)

\* the float n / d, d > 0, kept as the fraction in lowest terms
Div(n, d) == LET g == Gcd(n, d) IN <<n \div g, d \div g>>

\* a < b and a >= b on scores
ScoreLess(a, b) == a[1] * b[2] < b[1] * a[2]
ScoreGeq(a, b) == ~ScoreLess(a, b)

(***************************************************************************)
(* int(items[0]): surrounding whitespace is dropped, then an optional sign *)
(* and a non-empty run of decimal digits; anything else is a ValueError.   *)
(***************************************************************************)
Whitespace == {" ", "\n", "\t"}
DigitChars == <<"0", "1", "2", "3", "4", "5", "6", "7", "8", "9">>
IsDigit(c) == \E i \in DOMAIN DigitChars : DigitChars[i] = c
DigitValue(c) == (CHOOSE i \in DOMAIN DigitChars : DigitChars[i] = c) - 1

RECURSIVE Strip(_)
Strip(s) ==
  IF s = <<>> THEN s
  ELSE IF s[1] \in Whitespace THEN Strip(Tail(s))
  ELSE IF s[Len(s)] \in Whitespace THEN Strip(SubSeq(s, 1, Len(s) - 1))
  ELSE s

RECURSIVE DigitsValue(_)
DigitsValue(s) ==
  IF s = <<>> THEN 0
  ELSE 10 * DigitsValue(SubSeq(s, 1, Len(s) - 1)) + DigitValue(s[Len(s)])

\* int(float(items[0])): a trailing ".0" is accepted too
ParseIntLoose(field) ==
  LET s == Strip(field)
      n == Len(s)
      cut == IF n > 2 /\ s[n - 1] = "." /\ s[n] = "0" THEN SubSeq(s, 1, n - 2) ELSE s
      ok == cut # <<>> /\ \A i \in DOMAIN cut : IsDigit(cut[i])
  IN  [ok |-> ok, val |-> IF ok THEN DigitsValue(cut) ELSE 0]

ParseInt(field) ==
  LET s == Strip(field)
      signed == s # <<>> /\ s[1] \in {"+", "-"}
      digits == IF signed THEN Tail(s) ELSE s
      ok == digits # <<>> /\ \A i \in DOMAIN digits : IsDigit(digits[i])
  IN  [ok |-> ok,
       val |-> IF ~ok THEN 0
               ELSE IF signed /\ s[1] = "-" THEN 0 - DigitsValue(digits)
               ELSE DigitsValue(digits)]

\* str(m) for m >= 0, the way an id is written in the file
RECURSIVE DigitsOf(_)
DigitsOf(m) ==
  IF m < 10 THEN <<DigitChars[m + 1]>>
  ELSE Append(DigitsOf(m \div 10), DigitChars[(m % 10) + 1])

(***************************************************************************)
(* The input files.                                                        *)
(***************************************************************************)
Rows == [userId : Users, movieId : Movies, rating : RatingValues]

\* a user rates a movie at most once
Tables(n) ==
  {t \in UNION {[1..k -> Rows] : k \in 0..n} :
     \A i, j \in DOMAIN t :
       i # j => <<t[i].userId, t[i].movieId>> # <<t[j].userId, t[j].movieId>>}

PairLess(p, q) == p[1] < q[1] \/ (p[1] = q[1] /\ p[2] < q[2])

\* the rows for the (user, movie) pairs P with ratings r, in the order of
\* the file as distributed: by userId and, within a user, by movieId
RECURSIVE SortedRows(_, _)
SortedRows(P, r) ==
  IF P = {} THEN <<>>
  ELSE LET p == CHOOSE p \in P : \A q \in P \ {p} : PairLess(p, q)
       IN  <<[userId |-> p[1], movieId |-> p[2], rating |-> r[p]]>>
             \o SortedRows(P \ {p}, r)

AtMost(S, n) == {Q \in SUBSET S : Cardinality(Q) <= n}

SortedTables(n) ==
  UNION {{SortedRows(P, r) : r \in [P -> RatingValues]} :
           P \in AtMost(Users \X Movies, n)}

\* one user's good ratings
OneUserTables(n) ==
  {SortedRows(P, [p \in P |-> GoodRating]) : P \in AtMost({1} \X Movies, n)}

\* good ratings only, by any users
GoodTables(n) ==
  {SortedRows(P, [p \in P |-> GoodRating]) : P \in AtMost(Users \X Movies, n)}

\* the lines of movies.csv, each as line.split(","): a list of fields, a
\* field a list of characters
HeaderLine ==
  << <<"m", "o", "v", "i", "e", "I", "d">>, <<"t", "i", "t", "l", "e">>,
     <<"g", "e", "n", "r", "e", "s", "\n">> >>
TitleOf(m) == <<"T">> \o DigitsOf(m)
MovieLine(m) == << DigitsOf(m), TitleOf(m), <<"g", "\n">> >>
\* a row whose id does not parse: "1.0,T1,g"
BadLine(m) == << DigitsOf(m) \o <<".", "0">>, TitleOf(m), <<"g", "\n">> >>
MovieLines ==
  {HeaderLine} \cup {MovieLine(m) : m \in Movies} \cup {BadLine(m) : m \in Movies}
MovieFiles == UNION {[1..k -> MovieLines] : k \in 0..MaxLines}
\* the file as distributed: a header, then one line per movie
CompleteFile == <<HeaderLine>> \o [m \in Movies |-> MovieLine(m)]
\* the file as distributed but for the line of movie m
MissingOne(m) ==
  LET Other(line) == line # MovieLine(m) IN SelectSeq(CompleteFile, Other)

(***************************************************************************)
(* ratings_df: the userId column shifted by max_movie_id in int32.         *)
(***************************************************************************)
\* a sum above the range stays at the top of the range
AddSaturating(a, b) == IF b >= 0 /\ a > Int32Max - b THEN Int32Max ELSE a + b

\* a + b in int32: a sum outside the range wraps around by 2^32
AddInt32(a, b) ==
  IF b >= 0 /\ a > Int32Max - b
  THEN (a - Int32Max - 1) + (b - Int32Max - 1)
  ELSE IF b < 0 /\ a < (0 - Int32Max - 1) - b
  THEN (a + Int32Max + 1) + (b + Int32Max + 1)
  ELSE a + b

RECURSIVE MaxOf(_)
MaxOf(s) ==
  IF Len(s) = 1 THEN s[1]
  ELSE LET m == MaxOf(Tail(s)) IN IF s[1] >= m THEN s[1] ELSE m

Column(df, name) == [i \in DOMAIN df |-> df[i][name]]

\* the offset left out
OffsetNone(df, offset) == df

OffsetUsers(df, offset) ==
  [i \in DOMAIN df |->
     [df[i] EXCEPT !.userId = AddInt32(df[i].userId, offset)]]

(***************************************************************************)
(* The name map: for line in f.readlines(): ...                            *)
(***************************************************************************)
\* ",".join(items[1:-1]), kept as the list of the joined fields (a field
\* holds no comma, so the list and the joined string determine each other)
JoinMiddle(items) == SubSeq(items, 2, Len(items) - 1)

AddLine(map, items) ==
  LET p == ParseInt(items[1])
  IN  IF ~p.ok THEN map
      ELSE [k \in DOMAIN map \cup {p.val} |->
              IF k = p.val THEN JoinMiddle(items) ELSE map[k]]

RECURSIVE BuildNameMap(_)
BuildNameMap(lines) ==
  IF lines = <<>> THEN <<>>
  ELSE AddLine(BuildNameMap(SubSeq(lines, 1, Len(lines) - 1)),
               lines[Len(lines)])

(***************************************************************************)
(* good_ratings_df = ratings_df[ratings_df["rating"] >= 3]                 *)
(***************************************************************************)
\* > for >=
IsGoodStrict(row) == row.rating > GoodRating

IsGood(row) == row.rating >= GoodRating

GoodRows(df) == SelectSeq(df, IsGood)

(***************************************************************************)
(* nx.Graph: nodes in insertion order, and for each node its neighbours in *)
(* insertion order, each with the edge's rating attribute.                 *)
(***************************************************************************)
EmptyGraph == [nodes |-> <<>>, adj |-> <<>>]

AddNode(nodes, n) == IF Member(n, nodes) THEN nodes ELSE Append(nodes, n)

SetNbr(list, v, r) ==
  IF \E i \in DOMAIN list : list[i].nbr = v
  THEN [i \in DOMAIN list |->
          IF list[i].nbr = v THEN [nbr |-> v, rating |-> r] ELSE list[i]]
  ELSE Append(list, [nbr |-> v, rating |-> r])

\* G.add_edge(u, v, rating=r)
AddEdge(G, u, v, r) ==
  LET nodes == AddNode(AddNode(G.nodes, u), v)
      old(n) == IF n \in DOMAIN G.adj THEN G.adj[n] ELSE <<>>
      withV(n) == IF n = u THEN SetNbr(old(n), v, r) ELSE old(n)
      withU(n) == IF n = v THEN SetNbr(withV(n), u, r) ELSE withV(n)
  IN  [nodes |-> nodes, adj |-> [n \in Range(nodes) |-> withU(n)]]

\* nx.from_pandas_edgelist(df, source="userId", target="movieId",
\*                         edge_attr="rating")
RECURSIVE FromEdgelist(_)
FromEdgelist(df) ==
  IF df = <<>> THEN EmptyGraph
  ELSE LET row == df[Len(df)]
       IN  AddEdge(FromEdgelist(SubSeq(df, 1, Len(df) - 1)),
                   row.userId, row.movieId, row.rating)

HasNode(G, n) == n \in DOMAIN G.adj

\* list(G.neighbors(n)), also the keys of G[n]
Neighbors(G, n) == [i \in DOMAIN G.adj[n] |-> G.adj[n][i].nbr]

RatingOf(G, u, v) ==
  LET i == CHOOSE i \in DOMAIN G.adj[u] : G.adj[u][i].nbr = v
  IN  G.adj[u][i].rating

\* max(user_reviews, key=lambda n: user_reviews[n].get("rating", 0)):
\* the first neighbour of those with the highest rating
HighestRated(G, u) ==
  LET nb == Neighbors(G, u)
      i == CHOOSE i \in DOMAIN nb :
             /\ \A j \in DOMAIN nb : RatingOf(G, u, nb[j]) <= RatingOf(G, u, nb[i])
             /\ \A j \in 1..(i - 1) : RatingOf(G, u, nb[j]) < RatingOf(G, u, nb[i])
  IN  nb[i]

(***************************************************************************)
(* ebunch = [(anchor, n) for n in good_movie_ids[1:] if n != anchor]       *)
(***************************************************************************)
Ebunch(anchor, ids) ==
  LET NotAnchor(n) == n # anchor
      rest == SelectSeq(Tail1(ids), NotAnchor)
  IN  [i \in DOMAIN rest |-> <<anchor, rest[i]>>]

(***************************************************************************)
(* nx.jaccard_coefficient(G, ebunch): for each pair, in the order given,   *)
(* |N(u) & N(v)| / |N(u) | N(v)|, and 0 when both have no neighbour; a     *)
(* pair with a node that is not in G raises NodeNotFound.                  *)
(***************************************************************************)
NodeNotFound(G, pairs) ==
  \E i \in DOMAIN pairs : ~HasNode(G, pairs[i][1]) \/ ~HasNode(G, pairs[i][2])

JaccardOf(G, u, v) ==
  LET Nu == Range(Neighbors(G, u))
      Nv == Range(Neighbors(G, v))
  IN  IF Nu \cup Nv = {} THEN Div(0, 1)
      ELSE Div(Cardinality((Nu \cap Nv) \ {u, v}), Cardinality(Nu \cup Nv))

JaccardCoefficient(G, pairs) ==
  [i \in DOMAIN pairs |->
     <<pairs[i][1], pairs[i][2], JaccardOf(G, pairs[i][1], pairs[i][2])>>]

(***************************************************************************)
(* jacc_coeffs.sort(key=lambda t: t[2], reverse=True).  list.sort is a     *)
(* stable ascending sort; with reverse=True it reverses the list, sorts    *)
(* it, and reverses the result, which keeps equal keys in input order.     *)
(***************************************************************************)
\* x put behind every element whose key is not greater than its own
RECURSIVE InsertByKey(_, _)
InsertByKey(sorted, x) ==
  IF sorted = <<>> THEN <<x>>
  ELSE LET last == sorted[Len(sorted)]
       IN  IF ScoreLess(x[3], last[3])
           THEN Append(InsertByKey(SubSeq(sorted, 1, Len(sorted) - 1), x), last)
           ELSE Append(sorted, x)

RECURSIVE StableSort(_)
StableSort(L) ==
  IF L = <<>> THEN <<>>
  ELSE InsertByKey(StableSort(SubSeq(L, 1, Len(L) - 1)), L[Len(L)])

\* sorted and then reversed: equal keys come out in reverse input order
SortDescUnstable(L) == Reverse(StableSort(L))

\* reverse=True left out
SortAscending(L) == StableSort(L)

SortByCoefficient(L) == Reverse(StableSort(Reverse(L)))

(***************************************************************************)
(* recommendations = [mid for (_, mid, _) in jacc_coeffs                   *)
(*                    if mid not in movies_seen]                           *)
(***************************************************************************)
\* only the best unseen candidate kept
UnseenTop(L, seen) ==
  LET NotSeen(t) == ~Member(t[2], seen)
      kept == SelectSeq(L, NotSeen)
  IN  IF kept = <<>> THEN <<>> ELSE <<kept[1][2]>>

\* the filter left out
UnseenAll(L, seen) == [i \in DOMAIN L |-> L[i][2]]

\* "in" for "not in"
UnseenSeen(L, seen) ==
  LET IsSeen(t) == Member(t[2], seen)
      kept == SelectSeq(L, IsSeen)
  IN  [i \in DOMAIN kept |-> kept[i][2]]

Unseen(L, seen) ==
  LET NotSeen(t) == ~Member(t[2], seen)
      kept == SelectSeq(L, NotSeen)
  IN  [i \in DOMAIN kept |-> kept[i][2]]

\* mid = recommendations[0]
TopMatchLast(recs) == recs[Len(recs)]

TopMatch(recs) == recs[1]

(***************************************************************************)
(* print(...): a printed line names what it prints.                        *)
(***************************************************************************)
Line(text, who, id, name) == [text |-> text, who |-> who, id |-> id, name |-> name]

\* an entry without a name is passed over
RECURSIVE SimilarLinesSkipping(_, _, _, _)
SimilarLinesSkipping(sorted, names, i, n) ==
  IF i >= n THEN [out |-> <<>>, err |-> ""]
  ELSE IF i >= Len(sorted) THEN [out |-> <<>>, err |-> "IndexError"]
  ELSE LET rest == SimilarLinesSkipping(sorted, names, i + 1, n)
           m == sorted[i + 1][2]
       IN  IF m \notin DOMAIN names THEN rest
           ELSE [out |-> <<Line("ID", None, m, names[m])>> \o rest.out,
                 err |-> rest.err]

\* the body of print_similar_movies(movie_id, n) from the sort on: the
\* lines printed and the error that ends it ("" when it returns)
RECURSIVE SimilarLines(_, _, _, _)
SimilarLines(sorted, names, i, n) ==
  IF i >= n THEN [out |-> <<>>, err |-> ""]
  ELSE IF i >= Len(sorted) THEN [out |-> <<>>, err |-> "IndexError"]
  ELSE IF sorted[i + 1][2] \notin DOMAIN names THEN [out |-> <<>>, err |-> "KeyError"]
  ELSE LET rest == SimilarLines(sorted, names, i + 1, n)
           m == sorted[i + 1][2]
       IN  [out |-> <<Line("ID", None, m, names[m])>> \o rest.out,
            err |-> rest.err]

(***************************************************************************)
(* The download cell.  A file on disk is known by what it holds: the zip   *)
(* file is the archive as served, the body of an error response or the     *)
(* start of a write that was cut short; a CSV file was there before, was   *)
(* extracted from the archive or is the start of a cut-short extraction.   *)
(* requests.get raises when the server cannot be reached and returns the   *)
(* response otherwise, whatever its status; a write to disk can fail.      *)
(***************************************************************************)
Paths == {"zip_file", "ratings_csv", "movies_csv"}
ZipKinds == {"absent", "archive", "errorpage", "partial"}
CsvKinds == {"absent", "present", "extracted", "partial"}
NetOutcomes == {"ok", "error_status", "unreachable"}
Faults == {"none", "write", "extract_ratings", "extract_movies"}

\* os.path.exists answers "missing" whatever is on disk
ExistsNever(d, path) == FALSE

\* os.path.exists(path)
Exists(d, path) == d[path] # "absent"

\* z.extract(path), a step of the with block: nothing once an error is up
Extract(st, path, fails) ==
  IF st.err # "" THEN st
  ELSE IF fails
  THEN [disk |-> [st.disk EXCEPT ![path] = "partial"],
        io |-> Append(st.io, <<"extract", path>>), err |-> "OSError"]
  ELSE [disk |-> [st.disk EXCEPT ![path] = "extracted"],
        io |-> Append(st.io, <<"extract", path>>), err |-> ""]

\* a second request when the first one does not get through
FetchRetrying(st, net, fault) ==
  [disk |-> [st.disk EXCEPT !["zip_file"] = IF fault = "write" THEN "partial" ELSE "archive"],
   io |-> st.io \o (IF net = "unreachable" THEN << <<"GET", "zip_file">> >> ELSE <<>>)
            \o << <<"GET", "zip_file">>, <<"write", "zip_file">> >>,
   err |-> IF fault = "write" THEN "OSError" ELSE ""]

\* req = requests.get(url); with open(zip_file, "wb") as f: f.write(req.content)
Fetch(st, net, fault) ==
  IF net = "unreachable"
  THEN [st EXCEPT !.io = Append(@, <<"GET", "zip_file">>), !.err = "ConnectionError"]
  ELSE IF fault = "write"
  THEN [disk |-> [st.disk EXCEPT !["zip_file"] = "partial"],
        io |-> st.io \o << <<"GET", "zip_file">>, <<"write", "zip_file">> >>,
        err |-> "OSError"]
  ELSE [disk |-> [st.disk EXCEPT !["zip_file"] =
                    IF net = "ok" THEN "archive" ELSE "errorpage"],
        io |-> st.io \o << <<"GET", "zip_file">>, <<"write", "zip_file">> >>,
        err |-> ""]

\* with ZipFile(zip_file, "r") as z: only a whole archive opens
OpenZip(st) ==
  IF st.err # "" THEN st
  ELSE IF st.disk["zip_file"] # "archive" THEN [st EXCEPT !.err = "BadZipFile"]
  ELSE st

\* the whole cell from the disk d: the disk it leaves, what it did, and the
\* error that ended it ("" when it completes)
Acquire(d, net, fault) ==
  LET start == [disk |-> d, io |-> <<>>, err |-> ""]
  IN  IF Exists(d, "ratings_csv") /\ Exists(d, "movies_csv") THEN start
      ELSE LET fetched == IF Exists(d, "zip_file") THEN start
                          ELSE Fetch(start, net, fault)
               opened == OpenZip(fetched)
               first == Extract(opened, "ratings_csv", fault = "extract_ratings")
           IN  Extract(first, "movies_csv", fault = "extract_movies")

(***************************************************************************)
(* The state: the notebook's names, its output, and where the run is.      *)
(***************************************************************************)
VARIABLES
  ratings_csv,          \* the rows of ml-latest/ratings.csv
  movies_csv,           \* the lines of ml-latest/movies.csv
  ratings_df, max_movie_id, all_user_ids, all_movie_ids,
  movie_id_name_map,
  good_ratings_df, good_user_ids, good_movie_ids,
  good_user_movie_G,
  user, highest_rated_movie,
  ebunch,
  jacc_coeffs,
  movies_seen, recommendations,
  nx_query,             \* the pairs last handed to nx.jaccard_coefficient
  backend_priority,     \* nx.config.backend_priority, a list of backend names
  current_priority,     \* the timing cell's saved copy of it
  disk,                 \* what each of the three files holds on disk
  io,                   \* the requests and file writes of the download cell
  stdout,               \* what the cell run last printed
  err,                  \* the exception that stopped the run, "" if none
  pc                    \* the cell to run next

inputs == <<ratings_csv, movies_csv>>
config == <<backend_priority, current_priority>>
store == <<disk, io>>
frame == <<ratings_df, max_movie_id, all_user_ids, all_movie_ids>>
names == <<movie_id_name_map>>
good == <<good_ratings_df, good_user_ids, good_movie_ids>>
graph == <<good_user_movie_G>>
anchor == <<user, highest_rated_movie>>
ranking == <<movies_seen, recommendations>>
vars == <<ratings_csv, movies_csv, ratings_df, max_movie_id, all_user_ids,
          all_movie_ids, movie_id_name_map, good_ratings_df, good_user_ids,
          good_movie_ids, good_user_movie_G, user, highest_rated_movie,
          ebunch, jacc_coeffs, movies_seen, recommendations, nx_query,
          backend_priority, current_priority, disk, io, stdout, err, pc>>

Unbound ==
  /\ ratings_df = <<>> /\ max_movie_id = None
  /\ all_user_ids = <<>> /\ all_movie_ids = <<>>
  /\ movie_id_name_map = <<>>
  /\ good_ratings_df = <<>> /\ good_user_ids = <<>> /\ good_movie_ids = <<>>
  /\ good_user_movie_G = EmptyGraph
  /\ user = None /\ highest_rated_movie = None
  /\ ebunch = <<>> /\ jacc_coeffs = <<>>
  /\ movies_seen = <<>> /\ recommendations = <<>>
  /\ nx_query = <<>> /\ stdout = <<>> /\ err = ""

\* a name no cell has bound yet, where the name holds a list
Undefined == <<"undefined">>

\* %env NX_CUGRAPH_AUTOCONFIG=True: nx-cugraph puts itself first in the
\* backend priority when networkx is imported
AutoConfig ==
  /\ backend_priority = <<"cugraph">>
  /\ current_priority = Undefined

\* both CSV files in place, the archive gone
Downloaded == [path \in Paths |-> IF path = "zip_file" THEN "absent" ELSE "present"]

\* ratings with any metadata file (one user's), and with a metadata file
\* that lacks one movie (any users')
CatalogInputs ==
  \/ /\ ratings_csv \in OneUserTables(MaxRows - 1)
     /\ movies_csv \in MovieFiles
  \/ /\ ratings_csv \in GoodTables(MaxRows - 1)
     /\ movies_csv \in {MissingOne(m) : m \in Movies}

\* The inputs: any ratings table in file order or, one row shorter, in any
\* order, with the metadata file as distributed; or ratings with a metadata
\* file that is not as distributed.
Init ==
  /\ \/ /\ ratings_csv \in SortedTables(MaxRows) \cup Tables(MaxRows - 1)
        /\ movies_csv = CompleteFile
     \/ CatalogInputs
  /\ disk = Downloaded
  /\ io = <<>>
  /\ Unbound
  /\ AutoConfig
  /\ pc = "download"

Raise(e) == err' = e /\ pc' = "halt"

(***************************************************************************)
(* ratings_csv = "ml-latest/ratings.csv" ... z.extract(movies_csv)         *)
(***************************************************************************)
Download ==
  /\ pc = "download"
  /\ \E net \in NetOutcomes, fault \in Faults :
       LET end == Acquire(disk, net, fault)
       IN  /\ disk' = end.disk
           /\ io' = end.io
           /\ IF end.err # "" THEN Raise(end.err)
              ELSE pc' = "read" /\ err' = ""
  /\ stdout' = <<>>
  /\ UNCHANGED <<inputs, config, frame, names, good, graph, anchor, ebunch, jacc_coeffs,
                 ranking, nx_query>>

(***************************************************************************)
(* ratings_df = pd.read_csv(...) ... all_movie_ids = ...unique()           *)
(***************************************************************************)
ReadRatings ==
  /\ pc = "read"
  /\ IF ratings_csv = <<>>
     THEN \* ratings_df["userId"][0] of an empty frame
          /\ Raise("KeyError")
          /\ UNCHANGED frame
     ELSE LET top == MaxOf(Column(ratings_csv, "movieId"))
              df == OffsetUsers(ratings_csv, top)
          IN  /\ max_movie_id' = top
              /\ ratings_df' = df
              /\ all_user_ids' = Unique(Column(df, "userId"))
              /\ all_movie_ids' = Unique(Column(df, "movieId"))
              /\ pc' = "names"
              /\ err' = ""
  /\ stdout' = <<>>
  /\ UNCHANGED <<inputs, config, store, names, good, graph, anchor, ebunch, jacc_coeffs,
                 ranking, nx_query>>

ReadMovies ==
  /\ pc = "names"
  /\ movie_id_name_map' = BuildNameMap(movies_csv)
  /\ pc' = "filter"
  /\ stdout' = <<>>
  /\ UNCHANGED <<inputs, config, store, frame, good, graph, anchor, ebunch, jacc_coeffs,
                 ranking, nx_query, err>>

\* the statistics this cell prints are not kept, but the division by
\* len(good_user_ids) that the last one makes is
FilterGood ==
  /\ pc = "filter"
  /\ LET df == GoodRows(ratings_df)
         users == Unique(Column(df, "userId"))
     IN  /\ good_ratings_df' = df
         /\ good_user_ids' = users
         /\ good_movie_ids' = Unique(Column(df, "movieId"))
         /\ IF users = <<>> THEN Raise("ZeroDivisionError")
            ELSE pc' = "graph" /\ err' = ""
  /\ stdout' = <<>>
  /\ UNCHANGED <<inputs, config, store, frame, names, graph, anchor, ebunch, jacc_coeffs,
                 ranking, nx_query>>

BuildGraph ==
  /\ pc = "graph"
  /\ good_user_movie_G' = FromEdgelist(good_ratings_df)
  /\ pc' = "pick"
  /\ stdout' = <<>>
  /\ UNCHANGED <<inputs, config, store, frame, names, good, anchor, ebunch, jacc_coeffs,
                 ranking, nx_query, err>>

\* user = good_user_ids[321]: the notebook takes one position of an array
\* of 329127; the model takes any position of the array it has
PickUser ==
  /\ pc = "pick"
  /\ \E i \in DOMAIN good_user_ids :
       LET u == good_user_ids[i]
           m == HighestRated(good_user_movie_G, u)
       IN  /\ user' = u
           /\ highest_rated_movie' = m
           /\ IF m \in DOMAIN movie_id_name_map
              THEN /\ stdout' = <<Line("Highest rated movie", u, m,
                                       movie_id_name_map[m])>>
                   /\ pc' = "ebunch"
                   /\ err' = ""
              ELSE /\ stdout' = <<>>
                   /\ Raise("KeyError")
  /\ UNCHANGED <<inputs, config, store, frame, names, good, graph, ebunch, jacc_coeffs,
                 ranking, nx_query>>

\* the anchor's name taken out of the map with pop() as the pairs are built
MakeEbunchPopping ==
  /\ pc = "ebunch"
  /\ ebunch' = Ebunch(highest_rated_movie, good_movie_ids)
  /\ movie_id_name_map' =
       [k \in DOMAIN movie_id_name_map \ {highest_rated_movie} |-> movie_id_name_map[k]]
  /\ pc' = "jaccard"
  /\ stdout' = <<>>
  /\ UNCHANGED <<inputs, config, store, frame, good, graph, anchor, jacc_coeffs,
                 ranking, nx_query, err>>

MakeEbunch ==
  /\ pc = "ebunch"
  /\ ebunch' = Ebunch(highest_rated_movie, good_movie_ids)
  /\ pc' = "jaccard"
  /\ stdout' = <<>>
  /\ UNCHANGED <<inputs, config, store, frame, names, good, graph, anchor, jacc_coeffs,
                 ranking, nx_query, err>>

\* jacc_coeffs = list(nx.jaccard_coefficient(good_user_movie_G, ebunch)),
\* then pc is the cell to run next
Query(next) ==
  /\ nx_query' = ebunch
  /\ IF NodeNotFound(good_user_movie_G, ebunch)
     THEN Raise("NodeNotFound") /\ UNCHANGED jacc_coeffs
     ELSE /\ jacc_coeffs' = JaccardCoefficient(good_user_movie_G, ebunch)
          /\ pc' = next
          /\ err' = ""
  /\ stdout' = <<>>
  /\ UNCHANGED <<inputs, config, store, frame, names, good, graph, anchor, ebunch, ranking>>

RunJaccard == pc = "jaccard" /\ Query("jaccard_nx")

\* the same query with backend="networkx"
RunJaccardNetworkx == pc = "jaccard_nx" /\ Query("rank")

\* the ranking cell; it can be run again once it has run
RankCell ==
  /\ pc \in {"rank", "helper"}
  /\ LET sorted == SortByCoefficient(jacc_coeffs)
         seen == Neighbors(good_user_movie_G, user)
         recs == Unseen(sorted, seen)
     IN  /\ jacc_coeffs' = sorted
         /\ movies_seen' = seen
         /\ recommendations' = recs
         /\ IF Len(recs) > 0
            THEN IF TopMatch(recs) \in DOMAIN movie_id_name_map
                 THEN /\ stdout' = <<Line("might like", user, TopMatch(recs),
                                          movie_id_name_map[TopMatch(recs)])>>
                      /\ pc' = "helper"
                      /\ err' = ""
                 ELSE /\ stdout' = <<>>
                      /\ Raise("KeyError")
            ELSE /\ stdout' = <<>>
                 /\ pc' = "helper"
                 /\ err' = ""
  /\ UNCHANGED <<inputs, config, store, frame, names, good, graph, anchor, ebunch, nx_query>>

\* print_similar_movies(movie_id, n); its ebunch and jacc_coeffs are locals.
\* It binds no name of the notebook, so a further call would start from the
\* same names as this one: one call stands for any number of them.
\* Called from the timing cell, it returns into that cell.
PrintSimilarMovies(movie_id, n) ==
  /\ pc \in {"helper", "timing_call"}
  /\ LET pairs == Ebunch(movie_id, good_movie_ids)
         sorted == SortByCoefficient(JaccardCoefficient(good_user_movie_G, pairs))
         head == Line("Movies similar to", None, movie_id,
                      movie_id_name_map[movie_id])
         body == SimilarLines(sorted, movie_id_name_map, 0, n)
     IN  /\ nx_query' = pairs
         /\ IF NodeNotFound(good_user_movie_G, pairs)
            THEN stdout' = <<>> /\ Raise("NodeNotFound")
            ELSE IF movie_id \notin DOMAIN movie_id_name_map
            THEN stdout' = <<>> /\ Raise("KeyError")
            ELSE IF body.err # ""
            THEN stdout' = <<head>> \o body.out /\ Raise(body.err)
            ELSE /\ stdout' = <<head>> \o body.out
                 /\ pc' = IF pc = "timing_call" THEN "timing_restore" ELSE "done"
                 /\ err' = ""
  /\ UNCHANGED <<inputs, config, store, frame, names, good, graph, anchor, ebunch,
                 jacc_coeffs, ranking>>

CallHelper ==
  /\ pc = "helper"
  /\ \E movie_id \in Movies, n \in 0..MaxN : PrintSimilarMovies(movie_id, n)

Next ==
  \/ Download
  \/ ReadRatings
  \/ ReadMovies
  \/ FilterGood
  \/ BuildGraph
  \/ PickUser
  \/ MakeEbunch
  \/ RunJaccard
  \/ RunJaccardNetworkx
  \/ RankCell
  \/ CallHelper

Spec == Init /\ [][Next]_vars

(***************************************************************************)
(* The notebook on metadata files that are not as distributed.             *)
(***************************************************************************)
CatalogInit ==
  /\ CatalogInputs
  /\ disk = Downloaded
  /\ io = <<>>
  /\ Unbound
  /\ AutoConfig
  /\ pc = "download"

CatalogSpec == CatalogInit /\ [][Next]_vars

(***************************************************************************)
(* The ranking cell alone: it is given any similarity list of distinct     *)
(* candidates (good_movie_ids holds each movie once) and any seen-set, the *)
(* neighbours of the user in the graph.                                    *)
(***************************************************************************)
RankCands == 1..MaxCand
RankUser == MaxCand + 1
RankAnchor == MaxCand + 2
RankScores == {Div(k, MaxDen) : k \in 0..MaxDen}

RankLists ==
  {L \in UNION {[1..k -> {RankAnchor} \X RankCands \X RankScores] : k \in 0..MaxLen} :
     \A i, j \in DOMAIN L : i # j => L[i][2] # L[j][2]}

RECURSIVE RatedBy(_, _)
RatedBy(u, movies) ==
  IF movies = <<>> THEN [nodes |-> <<u>>, adj |-> [n \in {u} |-> <<>>]]
  ELSE AddEdge(RatedBy(u, SubSeq(movies, 1, Len(movies) - 1)),
               u, movies[Len(movies)], GoodRating)

PairsOf(L) == [i \in DOMAIN L |-> <<L[i][1], L[i][2]>>]

RankInit ==
  /\ ratings_csv = <<>> /\ movies_csv = <<>>
  /\ ratings_df = <<>> /\ max_movie_id = None
  /\ all_user_ids = <<>> /\ all_movie_ids = <<>>
  /\ movie_id_name_map = [m \in RankCands |-> <<TitleOf(m)>>]
  /\ good_ratings_df = <<>> /\ good_user_ids = <<>> /\ good_movie_ids = <<>>
  /\ \E S \in SUBSET RankCands : good_user_movie_G = RatedBy(RankUser, SetToSeq(S))
  /\ user = RankUser /\ highest_rated_movie = RankAnchor
  /\ jacc_coeffs \in RankLists
  /\ ebunch = PairsOf(jacc_coeffs)
  /\ nx_query = ebunch
  /\ movies_seen = <<>> /\ recommendations = <<>>
  /\ AutoConfig
  /\ disk = Downloaded /\ io = <<>>
  /\ stdout = <<>> /\ err = ""
  /\ pc = "rank"

RankNext == RankCell

RankSpec == RankInit /\ [][RankNext]_vars

(***************************************************************************)
(* The cell that reads the ratings alone, on tables whose ids come from    *)
(* both ends of the int32 range.                                           *)
(***************************************************************************)
WideUsers == Users \cup {Int32Max - k : k \in 0..(MaxUser - 1)}
WideMovies == Movies \cup {Int32Max - k : k \in 0..(MaxMovie - 1)}

WideRows == [userId : WideUsers, movieId : WideMovies, rating : {GoodRating}]

\* in the order of the file: by userId and, within a user, by movieId
WideTables ==
  {t \in UNION {[1..k -> WideRows] : k \in 0..(MaxRows - 1)} :
     \A i \in 1..(Len(t) - 1) :
       PairLess(<<t[i].userId, t[i].movieId>>,
                <<t[i + 1].userId, t[i + 1].movieId>>)}

OffsetInit ==
  /\ ratings_csv \in WideTables
  /\ movies_csv = CompleteFile
  /\ disk = Downloaded /\ io = <<>>
  /\ Unbound
  /\ AutoConfig
  /\ pc = "read"

OffsetNext == ReadRatings

OffsetSpec == OffsetInit /\ [][OffsetNext]_vars

(***************************************************************************)
(* The cell that builds the name map alone, on files whose lines spell the *)
(* leading field in the ways int() reads, and in ways it does not.         *)
(***************************************************************************)
\* " 1,P1,g": int() drops the blank
PaddedLine(m) == << <<" ">> \o DigitsOf(m), <<"P">> \o DigitsOf(m), <<"g", "\n">> >>
\* "+1,S1,g" and "-1,N1,g"
PlusLine(m) == << <<"+">> \o DigitsOf(m), <<"S">> \o DigitsOf(m), <<"g", "\n">> >>
MinusLine(m) == << <<"-">> \o DigitsOf(m), <<"N">> \o DigitsOf(m), <<"g", "\n">> >>
\* "1": a line of one field, which is its first and its last
BareLine(m) == << DigitsOf(m) \o <<"\n">> >>
\* an empty line
EmptyLine == << <<"\n">> >>

NameLines ==
  {HeaderLine, EmptyLine}
    \cup {MovieLine(m) : m \in Movies} \cup {BadLine(m) : m \in Movies}
    \cup {PaddedLine(m) : m \in Movies} \cup {PlusLine(m) : m \in Movies}
    \cup {MinusLine(m) : m \in Movies} \cup {BareLine(m) : m \in Movies}

NameFiles == UNION {[1..k -> NameLines] : k \in 0..MaxLines}

NameInit ==
  /\ ratings_csv \in OneUserTables(1) \ {<<>>}
  /\ movies_csv \in NameFiles
  /\ disk = Downloaded /\ io = <<>>
  /\ Unbound
  /\ AutoConfig
  /\ pc = "read"

NameNext == ReadRatings \/ ReadMovies

NameSpec == NameInit /\ [][NameNext]_vars

(***************************************************************************)
(* The download cell alone, from any disk (an earlier session may have     *)
(* left any of the files, whole or not), run any number of times: a later  *)
(* session finds the disk as the earlier one left it.                      *)
(***************************************************************************)
Disks ==
  {d \in [Paths -> ZipKinds \cup CsvKinds] :
     /\ d["zip_file"] \in ZipKinds
     /\ d["ratings_csv"] \in CsvKinds
     /\ d["movies_csv"] \in CsvKinds}

AcquireInit ==
  /\ ratings_csv = <<>> /\ movies_csv = <<>>
  /\ disk \in Disks
  /\ io = <<>>
  /\ Unbound
  /\ AutoConfig
  /\ pc = "download"

\* the kernel is restarted and the notebook run from the top
RunAgain ==
  /\ pc \in {"read", "halt"}
  /\ pc' = "download"
  /\ err' = ""
  /\ UNCHANGED <<inputs, config, store, frame, names, good, graph, anchor, ebunch,
                 jacc_coeffs, ranking, nx_query, stdout>>

AcquireNext == Download \/ RunAgain

AcquireSpec == AcquireInit /\ [][AcquireNext]_vars

(***************************************************************************)
(* The timing cell:                                                        *)
(*   current_priority = nx.config.backend_priority                         *)
(*   nx.config.backend_priority=["cugraph"]                                *)
(*   print_similar_movies(highest_rated_movie)                             *)
(*   nx.config.backend_priority = current_priority                         *)
(* run statement by statement, from any backend priority the session may   *)
(* have started with.                                                      *)
(***************************************************************************)
\* nothing configured, the default implementation first, nx-cugraph first
Priorities == {<<>>, <<"networkx">>, <<"cugraph">>}

TimingInit ==
  /\ CatalogInputs
  /\ disk = Downloaded
  /\ io = <<>>
  /\ Unbound
  /\ backend_priority \in Priorities
  /\ current_priority = Undefined
  /\ pc = "download"

\* the first two statements; the cell can be run once the helper is defined,
\* whether or not the cell that calls the helper has been run
TimingEnter ==
  /\ pc \in {"helper", "done"}
  /\ current_priority' = backend_priority
  /\ backend_priority' = <<"cugraph">>
  /\ pc' = "timing_call"
  /\ err' = ""
  /\ stdout' = <<>>
  /\ UNCHANGED <<inputs, store, frame, names, good, graph, anchor, ebunch,
                 jacc_coeffs, ranking, nx_query>>

\* the call, with the default n; an exception leaves the cell here
TimingCall ==
  /\ pc = "timing_call"
  /\ \E n \in 0..MaxN : PrintSimilarMovies(highest_rated_movie, n)

\* the last statement, reached when the call returned
TimingLeave ==
  /\ pc = "timing_restore"
  /\ backend_priority' = current_priority
  /\ pc' = "done"
  /\ UNCHANGED <<inputs, current_priority, store, frame, names, good, graph,
                 anchor, ebunch, jacc_coeffs, ranking, nx_query, stdout, err>>

TimingNext == Next \/ TimingEnter \/ TimingCall \/ TimingLeave

TimingSpec == TimingInit /\ [][TimingNext]_vars

(***************************************************************************)
(* Properties.                                                             *)
(***************************************************************************)
Seen == Neighbors(good_user_movie_G, user)

\* the score of candidate m in similarity list L
ScoreOf(L, m) == LET i == CHOOSE i \in DOMAIN L : L[i][2] = m IN L[i][3]

PosIn(s, x) == CHOOSE i \in DOMAIN s : s[i] = x

Candidates(pairs) == [i \in DOMAIN pairs |-> pairs[i][2]]

\* C1: the recommendations hold no member of the seen-set, the neighbours
\* of the user in the graph.
C1_NoSeenRecommended ==
  \A i \in DOMAIN recommendations : ~Member(recommendations[i], Seen)

\* the ranking has run on a list with a seen candidate and left a
\* recommendation
C1_Witness ==
  /\ pc = "helper"
  /\ recommendations # <<>>
  /\ \E i \in DOMAIN jacc_coeffs : Member(jacc_coeffs[i][2], Seen)

\* C2: the scores of the recommendations are non-increasing from first to
\* last.
C2_NonIncreasing ==
  \A i, j \in DOMAIN recommendations :
    i < j => ScoreGeq(ScoreOf(jacc_coeffs, recommendations[i]),
                      ScoreOf(jacc_coeffs, recommendations[j]))

\* two recommendations of different scores that the similarity list held
\* in the other order
C2_Witness ==
  /\ pc = "helper"
  /\ \E i, j \in DOMAIN recommendations :
       /\ i < j
       /\ ScoreLess(ScoreOf(jacc_coeffs, recommendations[j]),
                    ScoreOf(jacc_coeffs, recommendations[i]))
       /\ PosIn(Candidates(ebunch), recommendations[j])
            < PosIn(Candidates(ebunch), recommendations[i])

\* C3: the sort is stable: two candidates of equal score that are both
\* recommended keep the relative order they had in the similarity list the
\* ranking cell was given.
C3_StableOrder ==
  [][RankCell =>
       \A i, j \in DOMAIN jacc_coeffs :
         (/\ i < j
          /\ jacc_coeffs[i][3] = jacc_coeffs[j][3]
          /\ Member(jacc_coeffs[i][2], recommendations')
          /\ Member(jacc_coeffs[j][2], recommendations'))
         => PosIn(recommendations', jacc_coeffs[i][2])
              < PosIn(recommendations', jacc_coeffs[j][2])]_vars

\* the example of the specification: the list [(A,1,1), (A,2,0), (A,3,1)]
\* and nothing seen give [1, 3, 2]
C3_Witness ==
  /\ pc = "helper"
  /\ Candidates(ebunch) = <<1, 2, 3>>
  /\ Seen = <<>>
  /\ ScoreOf(jacc_coeffs, 1) = ScoreOf(jacc_coeffs, 3)
  /\ ScoreLess(ScoreOf(jacc_coeffs, 2), ScoreOf(jacc_coeffs, 1))
  /\ recommendations = <<1, 3, 2>>

\* C4 as claimed: the ranking cell prints the first recommendation when
\* there is one, and signals that there is none when the list is empty.
C4_SignalsWhenEmpty ==
  [][RankCell =>
       IF recommendations' # <<>>
       THEN err' = "" =>
              stdout' = <<Line("might like", user', recommendations'[1],
                               movie_id_name_map[recommendations'[1]])>>
       ELSE err' = "" /\ stdout' # <<>>]_vars

\* C4 as amended: the ranking cell prints the first recommendation with its
\* name when there is one (and stops with KeyError when the map lacks that
\* name); when the list is empty it prints nothing and ends without error.
C4_TopMatchOrSilent ==
  [][RankCell =>
       IF recommendations' = <<>>
       THEN stdout' = <<>> /\ err' = "" /\ pc' = "helper"
       ELSE IF recommendations'[1] \in DOMAIN movie_id_name_map
       THEN /\ stdout' = <<Line("might like", user', recommendations'[1],
                               movie_id_name_map[recommendations'[1]])>>
            /\ err' = "" /\ pc' = "helper"
       ELSE stdout' = <<>> /\ err' = "KeyError"]_vars

\* the ranking cell has just run, every candidate was seen, and nothing
\* was printed
C4_Witness ==
  /\ pc = "helper" /\ err = ""
  /\ jacc_coeffs # <<>>
  /\ movies_seen # <<>>
  /\ recommendations = <<>>
  /\ stdout = <<>>

\* C5: once the ranking cell has run it has ended without error, and the
\* recommendations are empty when the similarity list is empty and when
\* every candidate of it is in the seen-set.
C5_EmptyBoundaries ==
  pc # "rank" =>
    /\ pc = "helper" /\ err = ""
    /\ jacc_coeffs = <<>> => recommendations = <<>>
    /\ (\A i \in DOMAIN jacc_coeffs : Member(jacc_coeffs[i][2], Seen))
         => recommendations = <<>>

\* a non-empty list whose candidates are all seen
C5_Witness ==
  /\ pc = "helper"
  /\ Len(jacc_coeffs) > 1
  /\ \A i \in DOMAIN jacc_coeffs : Member(jacc_coeffs[i][2], Seen)
  /\ recommendations = <<>>

\* C6: running the ranking cell again, on the list it has sorted in place,
\* leaves the recommendations as they were.
C6_Idempotent ==
  [][(pc = "helper" /\ RankCell) => recommendations' = recommendations]_vars

\* the cell has run and can run again on a list with two recommended
\* candidates of equal score
C6_Witness ==
  /\ pc = "helper"
  /\ \E i, j \in DOMAIN recommendations :
       /\ i < j
       /\ ScoreOf(jacc_coeffs, recommendations[i])
            = ScoreOf(jacc_coeffs, recommendations[j])
  /\ ENABLED RankCell

\* C7 as claimed: the ranking cell leaves the similarity list, with its
\* order, the seen-set, the graph and the name map as they were.
C7_NoSideEffects ==
  [][RankCell =>
       /\ jacc_coeffs' = jacc_coeffs
       /\ Neighbors(good_user_movie_G', user') = Seen
       /\ good_user_movie_G' = good_user_movie_G
       /\ movie_id_name_map' = movie_id_name_map]_vars

\* C7 as amended: the ranking cell leaves the seen-set, the graph and the
\* name map as they were, and sorts jacc_coeffs in place: afterwards the
\* list holds the same tuples in non-increasing order of score.
C7_SortsInPlace ==
  [][RankCell =>
       /\ Neighbors(good_user_movie_G', user') = Seen
       /\ good_user_movie_G' = good_user_movie_G
       /\ movie_id_name_map' = movie_id_name_map
       /\ Len(jacc_coeffs') = Len(jacc_coeffs)
       /\ Range(jacc_coeffs') = Range(jacc_coeffs)
       /\ \A i, j \in DOMAIN jacc_coeffs' :
            i < j => ScoreGeq(jacc_coeffs'[i][3], jacc_coeffs'[j][3])]_vars

\* the list is no longer in the order of the pairs it was computed from
C7_Witness ==
  /\ pc = "helper"
  /\ PairsOf(jacc_coeffs) # ebunch

\* C8 as claimed: no movie the user has a rating record for, whatever the
\* rating, is recommended to that user.
C8_RatedNeverRecommended ==
  \A i \in DOMAIN ratings_df :
    ratings_df[i].userId = user
      => ~Member(ratings_df[i].movieId, recommendations)

\* the pairs hold each movie of the graph but a once, and nothing else
ExactlyOthers(pairs, a) ==
  /\ Cardinality(Range(pairs)) = Len(pairs)
  /\ Range(pairs) = {<<a, m>> : m \in Range(good_movie_ids) \ {a}}

\* C9 as claimed: the pairs built for the anchor, and the pairs handed to
\* the similarity query by either flow, are exactly one pair (anchor, m)
\* for every movie m of the good-ratings graph but the anchor.
C9_AllOtherMovies ==
  /\ pc \in {"jaccard", "jaccard_nx", "rank", "helper"}
       => ExactlyOthers(ebunch, highest_rated_movie)
  /\ nx_query # <<>> => ExactlyOthers(nx_query, nx_query[1][1])

\* the movie ids in play: those of the ratings, the anchor, the candidates
\* of the similarity list and the recommendations
MovieIdsInPlay ==
  Range(all_movie_ids) \cup Range(Candidates(jacc_coeffs))
    \cup Range(recommendations)
    \cup (IF highest_rated_movie = None THEN {} ELSE {highest_rated_movie})

HasLineFor(m) == \E i \in DOMAIN movies_csv : movies_csv[i][1] = DigitsOf(m)

\* C10 as claimed: once the name map is built, every movie id in play is
\* one of its keys.
C10_EveryIdNamed ==
  pc \notin {"download", "read", "names"} =>
    \A m \in MovieIdsInPlay : m \in DOMAIN movie_id_name_map

\* C10 as amended: once the name map is built, a movie id in play is one
\* of its keys exactly when the metadata file has a line whose first field
\* is that id; an id whose line was skipped as malformed, or that has no
\* line, is not a key.
C10_NamedIffLine ==
  pc \notin {"download", "read", "names"} =>
    \A m \in MovieIdsInPlay : m \in DOMAIN movie_id_name_map <=> HasLineFor(m)

\* a candidate of the similarity list has no name because its line was
\* skipped as malformed
C10_Witness ==
  /\ pc \in {"rank", "helper"}
  /\ \E i \in DOMAIN jacc_coeffs :
       /\ jacc_coeffs[i][2] \notin DOMAIN movie_id_name_map
       /\ \E k \in DOMAIN movies_csv :
            movies_csv[k] = BadLine(jacc_coeffs[i][2])

(***************************************************************************)
(* The download cell.                                                      *)
(***************************************************************************)
BothCsv(d) == d["ratings_csv"] # "absent" /\ d["movies_csv"] # "absent"

\* how many times the cell did op
Times(log, op) == Cardinality({i \in DOMAIN log : log[i][1] = op})

\* the request did not bring the archive: the server was not reached, or it
\* answered with an error whose body went to the zip file
RequestFailed(log, d) ==
  log = << <<"GET", "zip_file">> >> \/ d["zip_file"] = "errorpage"

\* C14: when a CSV file is missing and the archive is absent, the download
\* cell makes exactly one HTTP request; when it completes, the archive has
\* been written and both CSV files extracted, so both exist; when the
\* request fails, the cell stops with an error and has extracted nothing.
C14_OneRequestThenExtract ==
  [][(Download /\ ~BothCsv(disk) /\ disk["zip_file"] = "absent") =>
       /\ Times(io', "GET") = 1
       /\ err' = "" =>
            /\ pc' = "read"
            /\ disk'["zip_file"] = "archive"
            /\ io' = << <<"GET", "zip_file">>, <<"write", "zip_file">>,
                        <<"extract", "ratings_csv">>, <<"extract", "movies_csv">> >>
            /\ disk'["ratings_csv"] = "extracted"
            /\ disk'["movies_csv"] = "extracted"
            /\ BothCsv(disk')
       /\ RequestFailed(io', disk') =>
            /\ err' # "" /\ pc' = "halt"
            /\ Times(io', "extract") = 0
            /\ disk'["ratings_csv"] = disk["ratings_csv"]
            /\ disk'["movies_csv"] = disk["movies_csv"]]_vars

\* the server answered with an error: one request, the body written, and
\* the cell stopped before extracting
C14_Witness ==
  /\ pc = "halt" /\ err = "BadZipFile"
  /\ io = << <<"GET", "zip_file">>, <<"write", "zip_file">> >>
  /\ disk["zip_file"] = "errorpage"
  /\ ~BothCsv(disk)

\* C15 as claimed: a run of the download cell that ends in an error leaves
\* the archive file and the two CSV files as they were before the run.
C15_AllOrNothing ==
  [][(Download /\ err' # "") => disk' = disk]_vars

\* C20: with both CSV files in place the download cell makes no request
\* and touches no file; with a CSV file missing and the archive in place it
\* makes no request and does not write the archive, it only reads it.
C20_CachedFilesReused ==
  [][Download =>
       /\ BothCsv(disk) => io' = <<>> /\ disk' = disk /\ err' = ""
       /\ (~BothCsv(disk) /\ disk["zip_file"] # "absent") =>
            /\ Times(io', "GET") = 0
            /\ Times(io', "write") = 0
            /\ disk'["zip_file"] = disk["zip_file"]]_vars

\* a missing CSV file was extracted from an archive that was already there
C20_Witness ==
  /\ pc = "read"
  /\ io = << <<"extract", "ratings_csv">>, <<"extract", "movies_csv">> >>
  /\ disk["zip_file"] = "archive"
  /\ BothCsv(disk)

(***************************************************************************)
(* The name map.                                                           *)
(***************************************************************************)
\* the one line a cell prints for id m: the label stored for m when the
\* map has the key, and otherwise no line and a KeyError that ends the run
NamedOrAbort(text, m) ==
  IF m \in DOMAIN movie_id_name_map
  THEN /\ stdout' = <<Line(text, user', m, movie_id_name_map[m])>>
       /\ err' = ""
  ELSE stdout' = <<>> /\ err' = "KeyError" /\ pc' = "halt"

\* C11: a lookup in the name map is by exact key.  Where the anchor, the
\* top recommendation, the movie given to print_similar_movies and each of
\* the entries it lists are printed, the printed label is the one stored
\* for the id; an id that is not a key ends the step with KeyError at that
\* point: nothing is printed for it, no entry is passed over, and nothing
\* after it is printed.
C11_ExactKeyOrAbort ==
  [][/\ PickUser => NamedOrAbort("Highest rated movie", highest_rated_movie')
     /\ (pc' # "done" /\ RankCell /\ recommendations' # <<>>)
          => NamedOrAbort("might like", recommendations'[1])
     /\ (pc = "helper" /\ err' # "NodeNotFound") =>
        \A movie_id \in {m \in Movies : nx_query' = Ebunch(m, good_movie_ids)},
           n \in 0..MaxN :
          PrintSimilarMovies(movie_id, n) =>
            LET sorted == SortByCoefficient(
                            JaccardCoefficient(good_user_movie_G, nx_query'))
                printed == Len(stdout') - 1
            IN  /\ \A i \in DOMAIN stdout' :
                     /\ stdout'[i].id \in DOMAIN movie_id_name_map
                     /\ stdout'[i].name = movie_id_name_map[stdout'[i].id]
                /\ IF movie_id \notin DOMAIN movie_id_name_map
                   THEN stdout' = <<>> /\ err' = "KeyError" /\ pc' = "halt"
                   ELSE /\ stdout'[1].id = movie_id
                        /\ printed <= n
                        /\ \A i \in 1..printed : stdout'[i + 1].id = sorted[i][2]
                        /\ err' = "" <=> printed = n
                        /\ err' = "KeyError" <=>
                             /\ printed < n /\ printed < Len(sorted)
                             /\ sorted[printed + 1][2] \notin DOMAIN movie_id_name_map
                        /\ err' # "" => pc' = "halt"]_vars

\* print_similar_movies printed its heading and stopped at an entry whose
\* id is not a key
C11_Witness ==
  /\ pc = "halt" /\ err = "KeyError"
  /\ Len(stdout) = 1
  /\ stdout[1].text = "Movies similar to"
  /\ nx_query # <<>>
  /\ \E i \in DOMAIN nx_query : nx_query[i][2] \notin DOMAIN movie_id_name_map

(***************************************************************************)
(* The offset of the user ids.                                             *)
(***************************************************************************)
\* the sum of row i's user id and the offset is in the int32 range
Fits(i) == ratings_csv[i].userId <= Int32Max - max_movie_id

\* C12 as claimed: once the offset is applied, no addition has wrapped
\* around, and every user id is greater than every movie id, so that the
\* two sets of ids are disjoint.
C12_UsersAboveMovies ==
  pc = "names" =>
    /\ \A i \in DOMAIN ratings_df : Fits(i)
    /\ \A i, j \in DOMAIN ratings_df :
         ratings_df[i].userId > ratings_df[j].movieId
    /\ Range(all_user_ids) \cap Range(all_movie_ids) = {}

\* C12 as amended: once the offset is applied, the user ids and the movie
\* ids are disjoint and different users keep different ids.  A user id
\* whose sum with the offset is in the int32 range is that sum, greater
\* than every movie id; a sum above the range wraps around to a negative
\* id, which no movie id (they start at 1) equals.
C12_DisjointAlsoWrapped ==
  pc = "names" =>
    /\ Range(all_user_ids) \cap Range(all_movie_ids) = {}
    /\ \A i, j \in DOMAIN ratings_df :
         ratings_csv[i].userId # ratings_csv[j].userId
           => ratings_df[i].userId # ratings_df[j].userId
    /\ \A i \in DOMAIN ratings_df :
         IF Fits(i)
         THEN /\ ratings_df[i].userId = ratings_csv[i].userId + max_movie_id
              /\ \A j \in DOMAIN ratings_df :
                   ratings_df[i].userId > ratings_df[j].movieId
         ELSE /\ ratings_df[i].userId < 0
              /\ ratings_df[i].userId + Int32Max + 1
                   = (ratings_csv[i].userId - Int32Max - 1) + max_movie_id

\* the offset wrapped one user's id around and left another's in range
C12_Witness ==
  /\ pc = "names"
  /\ \E i, j \in DOMAIN ratings_df : ~Fits(i) /\ Fits(j)

(***************************************************************************)
(* The graph.                                                              *)
(***************************************************************************)
GraphBuilt ==
  pc \in {"pick", "ebunch", "jaccard", "jaccard_nx", "rank", "helper", "done"}

\* u and v are joined in the graph, with rating r on the edge
Joined(u, v, r) ==
  /\ u \in DOMAIN good_user_movie_G.adj
  /\ \E k \in DOMAIN good_user_movie_G.adj[u] :
       good_user_movie_G.adj[u][k] = [nbr |-> v, rating |-> r]

Adjacent(u, v) ==
  /\ u \in DOMAIN good_user_movie_G.adj
  /\ \E k \in DOMAIN good_user_movie_G.adj[u] : good_user_movie_G.adj[u][k].nbr = v

\* C13: the graph is bipartite.  Of the two ends of every edge one is a
\* user id (after the offset) and not a movie id, the other a movie id and
\* not a user id, and the rating on the edge is the rating of the record
\* of ratings_df for that user and movie.
C13_Bipartite ==
  LET users == Range(all_user_ids)
      movies == Range(all_movie_ids)
  IN  \A n \in DOMAIN good_user_movie_G.adj :
        \A k \in DOMAIN good_user_movie_G.adj[n] :
          LET v == good_user_movie_G.adj[n][k].nbr
              r == good_user_movie_G.adj[n][k].rating
              Built(u, m) ==
                /\ u \in users /\ u \notin movies
                /\ m \in movies /\ m \notin users
                /\ \E i \in DOMAIN ratings_df :
                     ratings_df[i] = [userId |-> u, movieId |-> m, rating |-> r]
          IN  Built(n, v) \/ Built(v, n)

\* a graph in which a user has two movies and a movie has two users
C13_Witness ==
  /\ GraphBuilt
  /\ \E u \in Range(all_user_ids), m1, m2 \in Range(all_movie_ids) :
       m1 # m2 /\ Adjacent(u, m1) /\ Adjacent(u, m2)
  /\ \E m \in Range(all_movie_ids), u1, u2 \in Range(all_user_ids) :
       u1 # u2 /\ Adjacent(m, u1) /\ Adjacent(m, u2)

\* the ends of the ratings of at least 3
GoodEnds ==
  LET rows == {i \in DOMAIN ratings_df : ratings_df[i].rating >= GoodRating}
  IN  {ratings_df[i].userId : i \in rows} \cup {ratings_df[i].movieId : i \in rows}

\* C17: in the graph a user and a movie are joined exactly when ratings_df
\* holds a record for them with a rating of at least 3, and the nodes of
\* the graph are the users and movies of such records: one with no rating
\* of at least 3 is not a node.
C17_EdgeIffGoodRating ==
  GraphBuilt =>
    /\ \A u \in Range(all_user_ids), m \in Range(all_movie_ids) :
         (Adjacent(u, m) /\ Adjacent(m, u))
           <=> \E i \in DOMAIN ratings_df :
                 /\ ratings_df[i].userId = u /\ ratings_df[i].movieId = m
                 /\ ratings_df[i].rating >= GoodRating
    /\ \A u \in Range(all_user_ids), m \in Range(all_movie_ids) :
         Adjacent(u, m) <=> Adjacent(m, u)
    /\ LET ends == GoodEnds
       IN  /\ Range(good_user_movie_G.nodes) = ends
           /\ DOMAIN good_user_movie_G.adj = ends

\* a rating of exactly 3 made an edge, and a user and a movie whose only
\* rating is below 3 are not nodes
C17_Witness ==
  /\ GraphBuilt
  /\ \E i \in DOMAIN ratings_df :
       /\ ratings_df[i].rating = GoodRating
       /\ Joined(ratings_df[i].userId, ratings_df[i].movieId, GoodRating)
  /\ \E i \in DOMAIN ratings_df :
       /\ ratings_df[i].rating < GoodRating
       /\ ratings_df[i].userId \notin DOMAIN good_user_movie_G.adj
       /\ ratings_df[i].movieId \notin DOMAIN good_user_movie_G.adj

\* C18: once the graph is built, no cell and no call of
\* print_similar_movies changes the graph (its nodes, its edges, their
\* ratings) or the name map.
C18_ReadOnlyOnceBuilt ==
  [][GraphBuilt =>
       /\ good_user_movie_G' = good_user_movie_G
       /\ movie_id_name_map' = movie_id_name_map]_vars

\* every cell has run, down to a call of print_similar_movies that
\* printed an entry
C18_Witness ==
  /\ pc = "done"
  /\ Len(stdout) > 1
  /\ recommendations # <<>>
  /\ good_user_movie_G = FromEdgelist(good_ratings_df)
  /\ movie_id_name_map = BuildNameMap(movies_csv)

(***************************************************************************)
(* The ranking.                                                            *)
(***************************************************************************)
\* how many times x occurs in s
Count(s, x) == Cardinality({i \in DOMAIN s : s[i] = x})

\* C19: the recommendations hold each candidate of the similarity list
\* that is not in the seen-set as many times as the list holds it, and
\* nothing else; their number is the number of tuples of the list whose
\* candidate is not in the seen-set.
C19_CompleteNoDuplicates ==
  pc = "helper" =>
    /\ \A m \in Range(Candidates(jacc_coeffs)) \cup Range(recommendations) :
         Count(recommendations, m) =
           IF Member(m, Seen) THEN 0 ELSE Count(Candidates(jacc_coeffs), m)
    /\ Len(recommendations) =
         Cardinality({i \in DOMAIN jacc_coeffs : ~Member(jacc_coeffs[i][2], Seen)})

\* a list of three candidates of which one is seen: two recommendations
C19_Witness ==
  /\ pc = "helper"
  /\ Len(jacc_coeffs) = 3
  /\ Len(Seen) > 0
  /\ Len(recommendations) = 2

(***************************************************************************)
(* The lines of the metadata file.                                         *)
(***************************************************************************)
\* the fields that int() reads as k: the decimal digits of k, after "+"
\* or nothing for k >= 0 and after "-" for k <= 0, with or without a blank
\* before and a newline after
Spellings(k) ==
  LET digits == DigitsOf(IF k < 0 THEN 0 - k ELSE k)
      signed == (IF k >= 0 THEN {digits, <<"+">> \o digits} ELSE {})
                  \cup (IF k <= 0 THEN {<<"-">> \o digits} ELSE {})
  IN  UNION {{s, <<" ">> \o s, s \o <<"\n">>} : s \in signed}

\* the lines of the file whose first field reads as k
LinesFor(k) == {i \in DOMAIN movies_csv : movies_csv[i][1] \in Spellings(k)}

\* C16: building the name map ends without error; its keys are the
\* integers that the first field of some line of the file reads as (a
\* line whose first field does not read as an integer, such as the header,
\* adds nothing), and the entry of a key is the one of the last line that
\* reads as it: the fields between the first and the last.
C16_KeysAreParsedIds ==
  pc = "filter" =>
    /\ err = ""
    /\ DOMAIN movie_id_name_map
         = {k \in (0 - MaxMovie)..MaxMovie : LinesFor(k) # {}}
    /\ \A k \in DOMAIN movie_id_name_map :
         LET last == CHOOSE i \in LinesFor(k) : \A j \in LinesFor(k) : j <= i
             items == movies_csv[last]
         IN  movie_id_name_map[k] = SubSeq(items, 2, Len(items) - 1)

\* the header was skipped and the line after it gave the only entry
C16_Witness ==
  /\ pc = "filter"
  /\ \E m \in Movies :
       /\ movies_csv = <<HeaderLine, PaddedLine(m)>>
       /\ movie_id_name_map = [k \in {m} |-> << <<"P">> \o DigitsOf(m) >>]

(***************************************************************************)
(* The download cell over several sessions.                                *)
(***************************************************************************)
\* C21 as claimed: a zip file that an earlier run of the download cell
\* left unreadable (the body of an error response, or a write cut short)
\* is not taken for the archive by a later run: with a CSV file missing,
\* the later run requests the archive again, and, when that request and
\* the writes succeed, ends with both CSV files in place.
C21_BadArchiveNotReused ==
  [][(/\ Download
      /\ Times(io, "write") = 1
      /\ disk["zip_file"] \in {"errorpage", "partial"}
      /\ ~BothCsv(disk))
       => /\ Times(io', "GET") = 1
          /\ disk'["zip_file"] = "archive" => (err' = "" /\ BothCsv(disk'))]_vars

(***************************************************************************)
(* The backend priority around the timing cell.                            *)
(***************************************************************************)
\* the timing cell ends: the helper raises, or the last statement runs
TimingEnds == (TimingCall /\ pc' = "halt") \/ TimingLeave

C23_PrintsUpToN ==
  [][pc = "helper" =>
       \A movie_id \in {m \in Movies : Member(m, good_movie_ids)}, n \in 0..MaxN :
         PrintSimilarMovies(movie_id, n) =>
           LET candidates == Len(nx_query')
               printed == Len(stdout') - 1
               score(i) == JaccardOf(good_user_movie_G, movie_id, stdout'[i + 1].id)
           IN  /\ err' = ""
               /\ printed = IF n < candidates THEN n ELSE candidates
               /\ \A i \in 1..printed : stdout'[i + 1].id # movie_id
               /\ \A i \in 1..(printed - 1) : ScoreGeq(score(i), score(i + 1))]_vars

=============================================================================
